---- MODULE Spec2Model ----
(***************************************************************************)
(* A model of the TextAdventureEngine interpretation pipeline: the scene   *)
(* parser, the template processor, the expression evaluator, the           *)
(* scene/choice state machine and the snapshot/undo/save subsystem.        *)
(*                                                                         *)
(* Text is modelled one token per source line: a story file is a sequence  *)
(* of line records (scene header, text, template tag, choice line, @goto   *)
(* directive) and an expression is a small record (a comparison on a       *)
(* dotted player stat, a comparison on a bare identifier, a has_completed  *)
(* call).  Python's None and "" are both falsy where the code tests them,  *)
(* and both are written "" here.  List objects live in a heap so that two  *)
(* dictionaries can hold the same list.                                    *)
(***************************************************************************)
EXTENDS Integers, Sequences, FiniteSets, TLC

VARIABLES
    current_story_id,   \* engine.current_story_id ("" before any load)
    scenes,             \* engine.scene_manager.scenes: scene id -> Scene
    characters,         \* engine.parser.characters: sequence of declarations
    actions,            \* game_state_manager.actions: registered action ids
    state,              \* game_state_manager.state (NoState before a game)
    heap,               \* list objects: reference -> sequence of items
    state_history,      \* save_system.state_history
    scene_cache,        \* engine._scene_cache: scene id -> render result
    saves,              \* files of the saves directory: name -> save data
    running,            \* main(): is the game loop running
    last,               \* history: the last operation and what it returned
    pre,                \* history: what the last operation started from
    base,               \* history: the state before the latest valid choice
    steps,              \* number of operations so far
    pushLog,            \* history: the stack an unbounded history would hold
    rtDict,             \* the dictionary of the latest to_dict
    rtState,            \* the state of the latest from_dict
    arg                 \* the input a function is applied to on its own

vars == <<current_story_id, scenes, characters, actions, state, heap,
          state_history, scene_cache, saves, running, last, pre, base,
          steps, pushLog, rtDict, rtState, arg>>

-----------------------------------------------------------------------------
(* Bounds of the model *)

\* SaveSystem.history_size (50 in the source) scaled down
HistorySize == 2

\* operations per behaviour of the game loop
MaxSteps == 5

\* items the story's log action appends to its list
MaxLog == 2

\* snapshots pushed beyond the capacity of the undo stack
ExtraPushes == 5

-----------------------------------------------------------------------------
(* Small helpers *)

None == ""

EmptyMap == [x \in {} |-> 0]

Put(f, k, v) == [x \in (DOMAIN f) \cup {k} |-> IF x = k THEN v ELSE f[x]]

Restrict(f, S) == [x \in S |-> f[x]]

Max2(a, b) == IF a >= b THEN a ELSE b

Min2(a, b) == IF a <= b THEN a ELSE b

RECURSIVE SetToList(_)
\* list(a_set): the elements in some order
SetToList(S) ==
    IF S = {} THEN <<>>
    ELSE LET x == CHOOSE y \in S : TRUE IN <<x>> \o SetToList(S \ {x})

\* set(a_list)
ListToSet(s) == {s[i] : i \in DOMAIN s}

Prefix(s, n) == SubSeq(s, 1, n)

Suffix(s, n) == SubSeq(s, Len(s) - n + 1, Len(s))

-----------------------------------------------------------------------------
(* Values of variables: scalars, lists (by reference) and objects that     *)
(* json cannot serialize.                                                  *)

IntVal(n) == [kind |-> "int", n |-> n]

ListVal(ref) == [kind |-> "list", n |-> ref]

ObjVal == [kind |-> "obj", n |-> 0]

\* a list item json cannot serialize (any other item is a string or number)
ObjItem == "<object>"

-----------------------------------------------------------------------------
(* character.py *)

\* DynamicStats.get / DynamicStats.__getattr__: None for a missing name
HasStat(stats, name) == name \in DOMAIN stats

StatGet(stats, name, default) == IF name \in DOMAIN stats THEN stats[name] ELSE default

ClampedNames == {"motivation", "energy", "confidence", "stress", "happiness",
                 "body_fat", "muscle_mass", "discipline", "health",
                 "fitness_level", "positivity", "empathy", "expertise",
                 "supportiveness"}

Character(name, is_player, stats) ==
    [name |-> name, is_player |-> is_player, stats |-> stats,
     inventory |-> <<>>, relationships |-> EmptyMap]

\* an update_stats that stores the value as given
Unclamped(char, key, value) == [char EXCEPT !.stats = Put(char.stats, key, value)]

update_stats(char, key, value) ==
    LET v == IF key \in ClampedNames THEN Max2(0, Min2(100, value)) ELSE value
    IN  [char EXCEPT !.stats = Put(char.stats, key, v)]

Character_to_dict(c) ==
    [name |-> c.name, is_player |-> c.is_player, stats |-> c.stats,
     inventory |-> c.inventory, relationships |-> c.relationships]

\* a from_dict that leaves the inventory empty
Character_from_dict_NoInventory(d) ==
    [Character(d.name, d.is_player, EmptyMap) EXCEPT
        !.stats = d.stats, !.relationships = d.relationships]

Character_from_dict(d) ==
    [Character(d.name, d.is_player, EmptyMap) EXCEPT
        !.stats = d.stats, !.inventory = d.inventory,
        !.relationships = d.relationships]

-----------------------------------------------------------------------------
(* game_state.py: GameState *)

NoState == [none |-> TRUE]

HasState(s) == "none" \notin DOMAIN s

GameState(scene_id, player) ==
    [current_scene_id |-> scene_id, player |-> player, npcs |-> EmptyMap,
     visited_scenes |-> {}, completed_events |-> {}, variables |-> EmptyMap,
     day |-> 1, time_of_day |-> "morning"]

\* json.dumps(v) succeeds on a list
JsonDumpsOk(items) == \A i \in DOMAIN items : items[i] # ObjItem

Serializable(v, h) ==
    \/ v.kind = "int"
    \/ v.kind = "list" /\ JsonDumpsOk(h[v.n])

_serialize_variables(variables, h) ==
    Restrict(variables, {k \in DOMAIN variables : Serializable(variables[k], h)})

to_dict(s, h) ==
    [current_scene_id |-> s.current_scene_id,
     player |-> Character_to_dict(s.player),
     npcs |-> [n \in DOMAIN s.npcs |-> Character_to_dict(s.npcs[n])],
     visited_scenes |-> SetToList(s.visited_scenes),
     completed_events |-> SetToList(s.completed_events),
     variables |-> _serialize_variables(s.variables, h),
     day |-> s.day,
     time_of_day |-> s.time_of_day]

DictKeys == {"current_scene_id", "player", "npcs", "visited_scenes",
             "completed_events", "variables", "day", "time_of_day"}

\* from_dict raises KeyError on a dictionary that lacks a key
from_dict_raises(d) == ~(DictKeys \subseteq DOMAIN d)

from_dict(d) ==
    [GameState(d.current_scene_id, Character_from_dict(d.player)) EXCEPT
        !.day = d.day,
        !.time_of_day = d.time_of_day,
        !.visited_scenes = ListToSet(d.visited_scenes),
        !.completed_events = ListToSet(d.completed_events),
        !.variables = d.variables,
        !.npcs = [n \in DOMAIN d.npcs |-> Character_from_dict(d.npcs[n])]]

\* the values a dictionary of variables holds, lists by content
DeepVars(variables, h) ==
    [k \in DOMAIN variables |->
        [kind |-> variables[k].kind,
         items |-> IF variables[k].kind = "list" THEN h[variables[k].n] ELSE <<>>,
         n |-> IF variables[k].kind = "list" THEN 0 ELSE variables[k].n]]

\* the serializable fields of a game state, by value
View(s, h) ==
    IF ~HasState(s) THEN NoState
    ELSE [current_scene_id |-> s.current_scene_id,
          player |-> s.player,
          npcs |-> s.npcs,
          visited_scenes |-> s.visited_scenes,
          completed_events |-> s.completed_events,
          variables |-> DeepVars(_serialize_variables(s.variables, h), h),
          day |-> s.day,
          time_of_day |-> s.time_of_day]

-----------------------------------------------------------------------------
(* game_state.py: GameState.advance_time.  A method that can raise gives   *)
(* [s |-> the state it leaves, raised |-> whether it raised]; for a        *)
(* character the field is c.                                               *)

TimePeriods == <<"morning", "afternoon", "evening", "night">>

\* time_periods.index(self.time_of_day); 0 where index raises ValueError
PeriodIndex(t) ==
    IF \E i \in DOMAIN TimePeriods : TimePeriods[i] = t
    THEN CHOOSE i \in DOMAIN TimePeriods : TimePeriods[i] = t
    ELSE 0

\* character.stats.<name> - n and the like: TypeError when the stat is None
StatMissing(c, name) == ~HasStat(c.stats, name)

\* _process_daily_updates from "Adjust energy based on sleep" on
SleepAdjusted(c) ==
    LET sleep_hours == StatGet(c.stats, "sleep_hours", 7) IN
    IF sleep_hours < 6
    THEN IF StatMissing(c, "energy") THEN [c |-> c, raised |-> TRUE]
         ELSE [c |-> update_stats(c, "energy", c.stats["energy"] - 15),
               raised |-> FALSE]
    ELSE IF sleep_hours > 8
    THEN IF StatMissing(c, "energy") THEN [c |-> c, raised |-> TRUE]
         ELSE [c |-> update_stats(c, "energy", Min2(100, c.stats["energy"] + 10)),
               raised |-> FALSE]
    ELSE [c |-> c, raised |-> FALSE]

\* _process_daily_updates once the two counters are written; days is the
\* days_since_exercise read before the increment
CountersWritten(c, days) ==
    IF days > 3
    THEN IF StatMissing(c, "motivation") THEN [c |-> c, raised |-> TRUE]
         ELSE SleepAdjusted(update_stats(c, "motivation", c.stats["motivation"] - 2))
    ELSE SleepAdjusted(c)

\* GameState._process_daily_updates
_process_daily_updates(c) ==
    CountersWritten(
        [c EXCEPT !.stats = Put(Put(@, "meals_today", 0), "days_since_exercise",
                                StatGet(c.stats, "days_since_exercise", 0) + 1)],
        StatGet(c.stats, "days_since_exercise", 0))

\* the order self.npcs.values() iterates in (the dictionary's insertion
\* order; the model's dictionaries keep one fixed order)
NpcOrder(s) == SetToList(DOMAIN s.npcs)

RECURSIVE DailyNpcs(_, _, _)
RECURSIVE NpcUpdated(_, _, _, _)
\* for npc in self.npcs.values(): self._process_daily_updates(npc)
DailyNpcs(s, names, i) ==
    IF i > Len(names) THEN [s |-> s, raised |-> FALSE]
    ELSE NpcUpdated(s, names, i, _process_daily_updates(s.npcs[names[i]]))

NpcUpdated(s, names, i, u) ==
    IF u.raised THEN [s |-> [s EXCEPT !.npcs[names[i]] = u.c], raised |-> TRUE]
    ELSE DailyNpcs([s EXCEPT !.npcs[names[i]] = u.c], names, i + 1)

\* the daily pass once the player is updated
PlayerUpdated(s, u) ==
    IF u.raised THEN [s |-> [s EXCEPT !.player = u.c], raised |-> TRUE]
    ELSE DailyNpcs([s EXCEPT !.player = u.c], NpcOrder(s), 1)

\* a day counter that the step into the morning leaves alone
SameDay(day) == day

\* self.day += 1 on the step out of the last period
NextDay(day) == day + 1

\* advance_time from the period of index current_index
Advanced(s, current_index) ==
    IF current_index = 0 THEN [s |-> s, raised |-> TRUE]
    ELSE IF current_index = Len(TimePeriods)
    THEN PlayerUpdated([s EXCEPT !.day = NextDay(s.day),
                                 !.time_of_day = TimePeriods[1]],
                       _process_daily_updates(s.player))
    ELSE [s |-> [s EXCEPT !.time_of_day = TimePeriods[current_index + 1]],
          raised |-> FALSE]

\* GameState.advance_time
advance_time(s) == Advanced(s, PeriodIndex(s.time_of_day))

-----------------------------------------------------------------------------
(* Expressions of story text.  An expression is one of                     *)
(*   stat:       player.stats.<name> <op> <n>                              *)
(*   name:       <name> <op> <n>          (a bare identifier)              *)
(*   completed:  has_completed('<name>')                                   *)
(*   complete_event:  game.complete_event('<name>')                        *)
(*   update_stats:    player.update_stats(<name>=<n>)                      *)
(*   advance_time:    game.advance_time()                                  *)
(*   none:       no expression                                             *)
(* The last three call a method of an object of the context; each returns  *)
(* None.                                                                   *)

Expr(k, name, op, n) == [k |-> k, name |-> name, op |-> op, n |-> n]

NoCond == Expr("none", "", "", 0)

Compare(a, op, b) ==
    CASE op = ">" -> a > b
      [] op = "<" -> a < b
      [] op = "==" -> a = b
      [] OTHER -> FALSE

\* the outcome of Python's eval: a truth value, or an exception
Value(b) == [err |-> FALSE, val |-> b]

Raised == [err |-> TRUE, val |-> FALSE]

\* dir(stats) of a DynamicStats: the class's methods and the instance's
\* one attribute, _data (the stat names are keys of _data, not attributes)
DynamicStatsDir == {"_data", "from_dict", "get", "set", "to_dict", "update"}

IsCallableAttr(n) == n \in {"from_dict", "get", "set", "to_dict", "update"}

StartsWithUnderscore(n) == n \in {"_data"}

\* NPC names, each cut to its alphanumeric characters (the model's names
\* are alphanumeric)
SafeNpcNames(s) == DOMAIN s.npcs

\* the names ExpressionEvaluator.evaluate binds an integer to
EvaluatorInts(s) ==
    LET stat_names == {n \in DynamicStatsDir :
                          ~StartsWithUnderscore(n) /\ ~IsCallableAttr(n)}
    IN  [n \in {"day"} \cup stat_names |->
            IF n \in stat_names THEN StatGet(s.player.stats, n, 0) ELSE s.day]

\* the names it binds to an object, a string or a function
EvaluatorObjects(s) ==
    {"player", "game", "time_of_day", "has_completed", "var"} \cup SafeNpcNames(s)

\* TextAdventureEngine._create_template_context
TemplateInts(s) == EmptyMap

TemplateObjects(s) ==
    {"player", "game", "var", "describe", "has_completed", "set_descriptor",
     "get_body_desc", "get_energy_desc", "list_descriptors"} \cup SafeNpcNames(s)

\* eval(expression, {"__builtins__": {}}, context); null_safe says the
\* comparison was rewritten to (player.stats.x or 0) <op> n
PyEval(e, ints, objects, s, null_safe) ==
    CASE e.k = "stat" ->
            IF HasStat(s.player.stats, e.name)
            THEN Value(Compare(s.player.stats[e.name], e.op, e.n))
            ELSE IF null_safe THEN Value(Compare(0, e.op, e.n))
            ELSE IF e.op = "==" THEN Value(FALSE)
            ELSE Raised                                   \* None > 20: TypeError
      [] e.k = "name" ->
            IF e.name \in DOMAIN ints THEN Value(Compare(ints[e.name], e.op, e.n))
            ELSE IF e.name \in objects
                 THEN (IF e.op = "==" THEN Value(FALSE) ELSE Raised)  \* TypeError
            ELSE Raised                                   \* NameError
      [] e.k = "completed" -> Value(e.name \in s.completed_events)
      [] e.k \in {"complete_event", "update_stats"} -> Value(FALSE)    \* None
      [] e.k = "advance_time" ->
            IF advance_time(s).raised THEN Raised ELSE Value(FALSE)  \* None
      [] OTHER -> Raised                                  \* eval(""): SyntaxError

\* the game state eval leaves: the methods of player and game are called
\* on the live objects
Evaluated(e, s) ==
    CASE e.k = "complete_event" ->
            [s EXCEPT !.completed_events = @ \cup {e.name}]
      [] e.k = "update_stats" -> [s EXCEPT !.player = update_stats(@, e.name, e.n)]
      [] e.k = "advance_time" -> advance_time(s).s
      [] OTHER -> s

\* an evaluate without its except clause
Propagating(e, s) == PyEval(e, EvaluatorInts(s), EvaluatorObjects(s), s, FALSE)

\* except Exception: return False
Caught(r) == IF r.err THEN Value(FALSE) ELSE r

\* ExpressionEvaluator.evaluate: a failed evaluation is False
evaluate(e, s) == Caught(PyEval(e, EvaluatorInts(s), EvaluatorObjects(s), s, FALSE))

\* GameStateManager.evaluate_condition
evaluate_condition(e, s) ==
    IF e.k = "none" \/ ~HasState(s) THEN Value(TRUE) ELSE evaluate(e, s)

-----------------------------------------------------------------------------
(* Lines of a story file and of a scene's content *)

Line(k) ==
    [k |-> k, id |-> "", text |-> "", arrow |-> FALSE, action |-> "",
     goto |-> "", story |-> "", sscene |-> "", cond |-> NoCond, egoto |-> "",
     spaced |-> TRUE]

\* ---id: title
Header(id) == [Line("header") EXCEPT !.id = id, !.text = id]

Text(t) == [Line("text") EXCEPT !.text = t]

\* {% if cond %}, {% elif cond %}, {% else %}
IfTag(c) == [Line("if") EXCEPT !.cond = c]

ElifTag(c) == [Line("elif") EXCEPT !.cond = c]

ElseTag == Line("else")

\* {% endif %} when spaced, {%endif%} when not
EndifTag(spaced) == [Line("endif") EXCEPT !.spaced = spaced]

\* @goto:scene
GotoDirective(scene) == [Line("goto") EXCEPT !.goto = scene]

\* {% if cond %}@goto:scene{% endif %} on one line
InlineGoto(c, scene) == [Line("ifgoto") EXCEPT !.cond = c, !.goto = scene]

\* * text -> action goto:scene story:story if cond
ChoiceLine(text, action, goto, story, cond) ==
    [Line("choice") EXCEPT !.text = text, !.arrow = TRUE, !.action = action,
                           !.goto = goto, !.story = story, !.cond = cond]

IsTag(l) == l.k \in {"if", "elif", "else", "endif"}

\* scene.py: Choice
Choice(text, action_id, next_scene, condition, next_story) ==
    [text |-> text, action_id |-> action_id, next_scene |-> next_scene,
     condition |-> condition, next_story |-> next_story]

\* scene.py: Scene
Scene(scene_id, content) ==
    [scene_id |-> scene_id, content |-> content, choices |-> <<>>]

-----------------------------------------------------------------------------
(* parser.py: StoryParser._process_scenes *)

\* the choice a structural choice line parses to
ParseChoice(l) ==
    IF ~l.arrow THEN Choice(l.text, None, None, NoCond, None)
    ELSE IF l.goto # None /\ l.cond.k # "none" /\ l.egoto # None
    THEN \* goto:X if C else goto:Y keeps X and C only
         Choice(l.text, None, l.goto, l.cond, None)
    ELSE Choice(l.text, l.action,
                IF l.story # None /\ l.sscene # None THEN l.sscene ELSE l.goto,
                l.cond, l.story)

\* the change of inside_conditional a line makes: "{% endif %}" holds "if "
NestingChange(l) ==
    CASE l.k \in {"if", "elif", "ifgoto"} -> 1
      [] l.k = "endif" -> IF l.spaced THEN 1 ELSE -1
      [] OTHER -> 0

ParserStart(scene_map) ==
    [cur |-> None, buf |-> <<>>, inside |-> 0, auto |-> None,
     scenes |-> scene_map, raised |-> FALSE]

\* finalize the current scene; set_auto_transition is no method of Scene,
\* so a pending @goto raises AttributeError here
FlushScene(acc) ==
    IF acc.cur # None /\ acc.buf # <<>>
    THEN [acc EXCEPT !.scenes[acc.cur].content = acc.buf,
                     !.buf = <<>>,
                     !.raised = (acc.auto # None)]
    ELSE acc

\* one iteration of the loop over the section's lines
ParseLine(acc, l) ==
    IF l.k = "goto" THEN [acc EXCEPT !.auto = l.goto]
    ELSE LET a == [acc EXCEPT !.inside = acc.inside + NestingChange(l)] IN
         CASE l.k = "header" ->
                LET f == FlushScene(a) IN
                IF f.raised THEN f
                ELSE [f EXCEPT !.cur = l.id,
                               !.scenes = Put(f.scenes, l.id, Scene(l.id, <<>>))]
           [] l.k = "choice" /\ a.cur # None ->
                IF a.inside > 0
                THEN [a EXCEPT !.buf = Append(a.buf, l)]
                ELSE [a EXCEPT !.scenes[a.cur].choices =
                                   Append(a.scenes[a.cur].choices, ParseChoice(l))]
           [] OTHER ->
                IF a.cur # None THEN [a EXCEPT !.buf = Append(a.buf, l)] ELSE a

RECURSIVE ParseLines(_, _, _)
ParseLines(acc, lines, i) ==
    IF acc.raised THEN acc
    ELSE IF i > Len(lines) THEN FlushScene(acc)
    ELSE ParseLines(ParseLine(acc, lines[i]), lines, i + 1)

_process_scenes(scene_map, lines) == ParseLines(ParserStart(scene_map), lines, 1)

-----------------------------------------------------------------------------
(* template_processor.py *)

ErrorInCondition == Text("{Error in condition}")

FirstIndex(c, from, kinds) ==
    LET I == {i \in from..Len(c) : c[i].k \in kinds}
    IN  IF I = {} THEN 0 ELSE CHOOSE i \in I : \A j \in I : i <= j

\* the lines of a segment: from its tag to the next "{%"
SegmentContent(block, i) ==
    LET j == FirstIndex(block, i + 1, {"if", "elif", "else", "endif"})
    IN  SubSeq(block, i + 1, (IF j = 0 THEN Len(block) + 1 ELSE j) - 1)

RECURSIVE ElifSegments(_, _)
\* the elif search restarts past the "{%" that ended the last match
ElifSegments(block, from) ==
    LET i == FirstIndex(block, from, {"elif"}) IN
    IF i = 0 THEN <<>>
    ELSE LET j == FirstIndex(block, i + 1, {"if", "elif", "else", "endif"})
         IN  <<[kind |-> "elif", cond |-> block[i].cond,
                content |-> SegmentContent(block, i)]>>
             \o (IF j = 0 THEN <<>> ELSE ElifSegments(block, j + 1))

Segments(block) ==
    LET e == FirstIndex(block, 1, {"else"}) IN
    <<[kind |-> "if", cond |-> block[1].cond, content |-> SegmentContent(block, 1)]>>
    \o ElifSegments(block, 1)
    \o (IF e = 0 THEN <<>>
        ELSE <<[kind |-> "else", cond |-> NoCond, content |-> SegmentContent(block, e)]>>)

\* _make_condition_null_safe rewrites player.stats.x <op> number
NullSafe(e) == e.k = "stat"

\* eval of a segment's condition in the template context
SegmentCondition(seg, s) ==
    PyEval(seg.cond, TemplateInts(s), TemplateObjects(s), s, NullSafe(seg.cond))

RECURSIVE EvaluateSegments(_, _, _)
RECURSIVE SegmentOutcome(_, _, _, _)
EvaluateSegments(segs, i, s) ==
    IF i > Len(segs) THEN <<>>
    ELSE IF segs[i].kind = "else" THEN segs[i].content
    ELSE SegmentOutcome(segs, i, s, SegmentCondition(segs[i], s))

\* the first segment whose condition holds is the block's text; an error
\* in a condition ends the block with an inline error string
SegmentOutcome(segs, i, s, r) ==
    IF r.err THEN <<ErrorInCondition>>
    ELSE IF r.val THEN segs[i].content
    ELSE EvaluateSegments(segs, i + 1, s)

_evaluate_conditional_block(block, s) == EvaluateSegments(Segments(block), 1, s)

\* what a block that is one line, {% if c %}@goto:X{% endif %}, is replaced
\* by: its body, nothing, or the error string
InlineOutcome(l, r) ==
    IF r.err THEN ErrorInCondition
    ELSE IF r.val THEN GotoDirective(l.goto)
    ELSE Text("")

RECURSIVE ResolveBlocks(_, _)
\* the loop that replaces each complete block by its result
ResolveBlocks(c, s) ==
    LET i == FirstIndex(c, 1, {"if", "ifgoto"})
        j == IF i = 0 THEN 0
             ELSE IF c[i].k = "ifgoto" THEN i
             ELSE FirstIndex(c, i + 1, {"endif"})
    IN  IF j = 0 THEN c
        ELSE ResolveBlocks(
                 SubSeq(c, 1, i - 1)
                 \o (IF c[i].k = "ifgoto"
                     THEN <<InlineOutcome(c[i], SegmentCondition(c[i], s))>>
                     ELSE _evaluate_conditional_block(SubSeq(c, i, j), s))
                 \o SubSeq(c, j + 1, Len(c)), s)

\* the scene of the last @goto line of the resolved text, None without one
AutoTransition(c) ==
    LET i == {k \in DOMAIN c : c[k].k = "goto"}
    IN  IF i = {} THEN None ELSE c[CHOOSE k \in i : \A m \in i : m <= k].goto

\* text.replace(line, '', 1): a directive line is left empty
WithoutDirectives(c) ==
    [k \in 1..Len(c) |-> IF c[k].k = "goto" THEN Text("") ELSE c[k]]

\* the text _process_conditionals returns; it stores AutoTransition of the
\* resolved text in the processor
_process_conditionals(c, s) == WithoutDirectives(ResolveBlocks(c, s))

\* the action id of a choice line at render time: the words before goto: or
\* story:, which take the condition's text with them when neither follows
ActionWithCondition == "<action if condition>"

ExtractChoice(l) ==
    IF ~l.arrow THEN Choice(l.text, None, None, NoCond, None)
    ELSE Choice(l.text,
                IF l.goto = None /\ l.story = None /\ l.cond.k # "none"
                THEN ActionWithCondition ELSE l.action,
                IF l.story # None /\ l.sscene # None THEN l.sscene ELSE l.goto,
                NoCond, l.story)

IsChoiceLine(l) == l.k = "choice"

IsDisplayLine(l) == l.k # "choice"

ExtractChoices(sq) == [i \in 1..Len(sq) |-> ExtractChoice(sq[i])]

_extract_choices(c) == ExtractChoices(SelectSeq(c, IsChoiceLine))

LineText(l) == IF l.k = "text" THEN l.text ELSE l.k

LineTexts(sq) == [i \in 1..Len(sq) |-> LineText(sq[i])]

_filter_choice_lines(c) == LineTexts(SelectSeq(c, IsDisplayLine))

\* TemplateResult(text, choices, auto_transition=None)
TemplateResult(text, choices) ==
    [text |-> text, choices |-> choices, auto_transition |-> None]

\* the display text and the choices of processed content
SplitProcessed(processed) ==
    TemplateResult(_filter_choice_lines(processed), _extract_choices(processed))

\* TemplateProcessor.process (the model's lines hold no {{ }} interpolation)
process(content, s) ==
    IF content = <<>> THEN TemplateResult(<<>>, <<>>)
    ELSE [SplitProcessed(_process_conditionals(content, s))
             EXCEPT !.auto_transition = AutoTransition(ResolveBlocks(content, s))]

\* TemplateProcessor.process_text on a choice's text, which holds no tag
process_text(text, s) == text

-----------------------------------------------------------------------------
(* The story files of the stories directory.  A file gives its character   *)
(* declarations, the action ids its functions section registers and the    *)
(* lines of its scene section.                                             *)

\* - name with its attribute lines; is_player says the data holds
\* is_player: true
Declaration(name, data, is_player) ==
    [name |-> name, data |-> data, is_player |-> is_player, import |-> None]

\* - name@template with its attribute lines
ImportedDeclaration(name, template, data, is_player) ==
    [Declaration(name, data, is_player) EXCEPT !.import = template]

EnergyOver(n) == Expr("stat", "energy", ">", n)

BareEnergyOver(n) == Expr("name", "energy", ">", n)

StoryOneScenes ==
    << Header("end"),
       Text("Over."),
       ChoiceLine("Never", None, "start", None, EnergyOver(1000)),
       ChoiceLine("Bare", None, "start", None, BareEnergyOver(20)),
       Header("gym"),
       Text("At the gym."),
       ChoiceLine("Back", "undo", None, None, NoCond),
       ChoiceLine("Log", "logit", None, None, NoCond),
       ChoiceLine("Finish", None, "end", None, NoCond),
       Header("start"),
       Text("Welcome."),
       ChoiceLine("Train", "train", "gym", None, NoCond),
       ChoiceLine("Bare", None, "end", None, BareEnergyOver(20)),
       ChoiceLine("Rest", None, "end", None, EnergyOver(50)),
       ChoiceLine("Leave", None, None, "s2", NoCond),
       ChoiceLine("Break", None, None, "s3", NoCond),
       IfTag(EnergyOver(50)),
       Text("strong"),
       ChoiceLine("Sprint", "train", None, None, NoCond),
       ChoiceLine("Jog", "train", "gym", None, NoCond),
       ElseTag,
       Text("weak"),
       EndifTag(TRUE) >>

StoryTwoScenes ==
    << Header("start"),
       Text("Second."),
       ChoiceLine("Home", None, None, "s1", NoCond),
       \* * Gym -> story:s1:gym
       [ChoiceLine("Gym", None, None, "s1", NoCond) EXCEPT !.sscene = "gym"] >>

\* an @goto directive inside a scene that another scene follows
StoryThreeScenes ==
    << Header("start"),
       Text("Third."),
       GotoDirective("other"),
       Header("other"),
       Text("x") >>

\* a story file outside the stories directory, named by its path
StoryFourScenes ==
    << Header("start"),
       Text("Fourth."),
       ChoiceLine("Enter", None, None, "s1", NoCond) >>

\* a story whose characters section declares the player
StoryFiveScenes ==
    << Header("start"),
       Text("Fifth.") >>

\* engine.story_paths: the ids of the files of the stories directory
StoryPaths == {"s1", "s2", "s3", "s5", "s6"}

\* the paths of existing story files that are not in the stories directory
StoryFilePaths == {"out/s4.tadv"}

\* os.path.splitext(os.path.basename(filepath))[0]
StoryId(filepath_or_id) ==
    IF filepath_or_id = "out/s4.tadv" THEN "s4" ELSE filepath_or_id

StoryFile(id) ==
    CASE id = "s1" ->
            [characters |-> <<Declaration("Hero", [energy |-> 80], FALSE)>>,
             functions |-> {"train", "logit"},
             scene |-> StoryOneScenes]
      [] id = "s2" ->
            [characters |-> <<>>, functions |-> {}, scene |-> StoryTwoScenes]
      [] id = "s4" ->
            [characters |-> <<>>, functions |-> {}, scene |-> StoryFourScenes]
      [] id = "s5" ->
            [characters |-> <<ImportedDeclaration("Mage", "hero.tchar",
                                                  [energy |-> 40], TRUE),
                              Declaration("Ann", [energy |-> 10], FALSE)>>,
             functions |-> {}, scene |-> StoryFiveScenes]
      [] id = "s6" ->
            [characters |-> <<Declaration("Mage", [energy |-> 40], TRUE),
                              ImportedDeclaration("Ann", "hero.tchar",
                                                  [energy |-> 10], FALSE)>>,
             functions |-> {}, scene |-> StoryFiveScenes]
      [] OTHER ->
            [characters |-> <<>>, functions |-> {}, scene |-> StoryThreeScenes]

\* what the command line and the prompts supply
StoryArguments == StoryPaths \cup StoryFilePaths \cup {"nope"}

PlayerNames == {"Hero", "Player"}

StartingScene == "start"

-----------------------------------------------------------------------------
(* engine.py.  A world is the engine with everything it owns:              *)
(* [story, scenes, characters, actions, state, heap, history, cache].      *)

Result(ok, msg, w) == [ok |-> ok, msg |-> msg, w |-> w]

\* load_story once the file is parsed: p is the parser's outcome
StoryParsed(w, id, file, p) ==
    IF p.raised
    THEN Result(FALSE, "Error loading story",
                [w EXCEPT !.scenes = p.scenes, !.characters = file.characters])
    ELSE Result(TRUE, "",
                [w EXCEPT !.scenes = p.scenes,
                          !.characters = file.characters,
                          !.story = id,
                          !.actions = IF file.functions = {} THEN @
                                      ELSE @ \cup {"change_body_descriptor",
                                                   "change_energy_descriptor"}
                                             \cup file.functions])

\* load_story once the file is found: the scene manager is replaced when
\* the story differs, then the file is parsed
FileFound(w, id) ==
    StoryParsed(w, id, StoryFile(id),
                _process_scenes(IF w.story # id THEN EmptyMap ELSE w.scenes,
                                StoryFile(id).scene))

\* TextAdventureEngine.load_story
load_story(w, filepath_or_id) ==
    IF filepath_or_id \notin StoryPaths \cup StoryFilePaths
    THEN Result(FALSE, "Story not found", w)
    ELSE FileFound(w, StoryId(filepath_or_id))

\* a create_game_state that leaves the visited set empty
CreatedUnvisited(scene_id, player) == GameState(scene_id, player)

\* GameStateManager.create_game_state
create_game_state(scene_id, player) ==
    [GameState(scene_id, player) EXCEPT !.visited_scenes = {scene_id}]

\* character_manager.py: the files of the templates directory, each with
\* the stats it gives
TemplateFiles == [t \in {"hero.tchar"} |-> [energy |-> 60, strength |-> 5]]

\* None where a Character is expected
NoCharacter == [none |-> TRUE]

IsCharacter(c) == "none" \notin DOMAIN c

\* final_stats = template_stats.copy(); final_stats.update(override_stats)
Override(f, g) ==
    [x \in (DOMAIN f) \cup (DOMAIN g) |-> IF x \in DOMAIN g THEN g[x] ELSE f[x]]

\* CharacterManager.create_character_from_template: None when the template
\* is not found, and when the overrides hold is_player, which Character()
\* then gets twice (the TypeError is caught)
create_character_from_template(template_path, name, is_player, d) ==
    IF template_path \notin DOMAIN TemplateFiles \/ d.is_player THEN NoCharacter
    ELSE Character(name, is_player, Override(TemplateFiles[template_path], d.data))

\* the NPC a declaration creates
CreatedNpc(d) ==
    IF d.import # None
    THEN create_character_from_template(d.import, d.name, FALSE, d)
    ELSE Character(d.name, FALSE, d.data)

RECURSIVE AddNpcs(_, _, _)
\* the loop that creates the NPCs; add_npc(None) raises AttributeError
AddNpcs(s, decls, i) ==
    IF i > Len(decls) THEN [s |-> s, raised |-> FALSE]
    ELSE IF decls[i].is_player \/ decls[i].name = s.player.name
    THEN AddNpcs(s, decls, i + 1)
    ELSE IF ~IsCharacter(CreatedNpc(decls[i])) THEN [s |-> s, raised |-> TRUE]
    ELSE AddNpcs([s EXCEPT !.npcs = Put(@, decls[i].name, CreatedNpc(decls[i]))],
                 decls, i + 1)

\* initialize_game once the game state is created and the NPCs are added
NpcsAdded(w, a) ==
    IF a.raised THEN Result(FALSE, "Error initializing game", [w EXCEPT !.state = a.s])
    ELSE Result(TRUE, "", [w EXCEPT !.state = a.s, !.actions = @ \cup {"undo"}])

\* TextAdventureEngine.initialize_game
initialize_game(w, player_name, starting_scene, keep_player) ==
    LET decls == w.characters
        found == {i \in DOMAIN decls :
                     decls[i].is_player \/ decls[i].name = player_name}
        first == CHOOSE i \in found : \A j \in found : i <= j
        keep == keep_player /\ HasState(w.state)
        \* is_player given twice to create_character: TypeError
        raises == /\ ~keep /\ found # {}
                  /\ decls[first].import = None /\ decls[first].is_player
        name == IF player_name # None THEN player_name ELSE decls[first].name
        created ==
            IF keep THEN w.state.player
            ELSE IF found # {}
            THEN IF decls[first].import # None
                 THEN create_character_from_template(decls[first].import, name,
                                                     TRUE, decls[first])
                 ELSE Character(name, TRUE, decls[first].data)
            ELSE IF player_name # None THEN Character(player_name, TRUE, EmptyMap)
            ELSE NoCharacter
        \* if not player: the default player
        player == IF IsCharacter(created) THEN created
                  ELSE Character("Player", TRUE, EmptyMap)
        scene_id == IF starting_scene # None THEN starting_scene ELSE StartingScene
    IN  IF raises THEN Result(FALSE, "Error initializing game", w)
        ELSE NpcsAdded(w, AddNpcs(create_game_state(scene_id, player), decls, 1))

\* transition_to_story once load_story returned
StoryLoaded(l, starting_scene) ==
    IF ~l.ok THEN l ELSE initialize_game(l.w, None, starting_scene, TRUE)

\* TextAdventureEngine.transition_to_story
transition_to_story(w, story_id, starting_scene) ==
    IF story_id \notin StoryPaths THEN Result(FALSE, "Story not found", w)
    ELSE StoryLoaded(load_story(w, story_id), starting_scene)

\* a render that skips "if not condition_result: continue"
NotRaised(r) == ~r.err

\* the condition neither raised nor was false
IsTrue(r) == ~r.err /\ r.val

\* the kept choices as the render lists them: text processed, condition None
ProcessedChoices(sq, s) ==
    [i \in 1..Len(sq) |->
        Choice(process_text(sq[i].text, s), sq[i].action_id, sq[i].next_scene,
               NoCond, sq[i].next_story)]

\* the statically declared choices a render keeps
AvailableChoices(scene, s) ==
    LET Keep(c) ==
            \/ c.condition.k = "none"
            \/ IsTrue(evaluate_condition(c.condition, s))
    IN  ProcessedChoices(SelectSeq(scene.choices, Keep), s)

\* template_choices + available_choices
CombineReversed(available_choices, result) ==
    TemplateResult(result.text, result.choices \o available_choices)

\* all_choices = available_choices + template_choices
Combine(available_choices, result) ==
    TemplateResult(result.text, available_choices \o result.choices)

\* get_current_scene_info past the cache
RenderScene(scene, s) ==
    Combine(AvailableChoices(scene, s), process(scene.content, s))

\* self._scene_cache[scene_id] = result
Cached(w, r) ==
    [result |-> r, w |-> [w EXCEPT !.cache = Put(@, w.state.current_scene_id, r)]]

NoCurrentScene == TemplateResult(<<"Error: No current scene.">>, <<>>)

HasCurrentScene(w) ==
    HasState(w.state) /\ w.state.current_scene_id \in DOMAIN w.scenes

\* TextAdventureEngine.get_current_scene_info
get_current_scene_info(w) ==
    IF ~HasCurrentScene(w) THEN [result |-> NoCurrentScene, w |-> w]
    ELSE IF w.state.current_scene_id \in DOMAIN w.cache
    THEN [result |-> w.cache[w.state.current_scene_id], w |-> w]
    ELSE Cached(w, RenderScene(w.scenes[w.state.current_scene_id], w.state))

-----------------------------------------------------------------------------
(* save_system.py *)

\* a snapshot: {'story_id': ..., 'state': state.to_dict()}
Snapshot(w) == [story_id |-> w.story, state |-> to_dict(w.state, w.heap)]

\* a push_state that drops the newest snapshot of a full history
EvictNewest(history) ==
    IF Len(history) >= HistorySize THEN Prefix(history, Len(history) - 1) ELSE history

\* the oldest snapshot leaves a full history
EvictOldest(history) == IF Len(history) >= HistorySize THEN Tail(history) ELSE history

\* SaveSystem.push_state
push_state(w) ==
    IF ~HasState(w.state) THEN w
    ELSE [w EXCEPT !.history = Append(EvictOldest(w.history), Snapshot(w))]

\* _restore_state once the snapshot's story is the loaded one
StateRestored(l, state_dict) ==
    IF ~l.ok THEN Result(FALSE, "Failed to load story", l.w)
    ELSE IF from_dict_raises(state_dict)
    THEN Result(FALSE, "Error restoring state", l.w)
    ELSE Result(TRUE, "Previous state restored.",
                [l.w EXCEPT !.state = from_dict(state_dict), !.cache = EmptyMap])

\* SaveSystem._restore_state
_restore_state(w, story_id, state_dict) ==
    StateRestored(IF story_id # w.story THEN load_story(w, story_id)
                  ELSE Result(TRUE, "", w),
                  state_dict)

\* SaveSystem.undo
undo(w) ==
    IF w.history = <<>> THEN Result(FALSE, "Nothing to undo.", w)
    ELSE LET previous == w.history[Len(w.history)]
             popped == [w EXCEPT !.history = Prefix(w.history, Len(w.history) - 1)]
         IN  _restore_state(popped, previous.story_id, previous.state)

\* json.dump of a state dictionary: every list is written out
DumpDict(d, h) == [d EXCEPT !.variables = DeepVars(d.variables, h)]

\* SaveSystem.save_game: the data written to the file
SaveData(w) == [story_id |-> w.story, state |-> DumpDict(to_dict(w.state, w.heap), w.heap)]

FreshRef(h) == CHOOSE r \in 1..(Cardinality(DOMAIN h) + 1) : r \notin DOMAIN h

RECURSIVE AllocLists(_, _, _, _)
AllocLists(variables, h, deep, keys) ==
    IF keys = <<>> THEN [variables |-> variables, heap |-> h]
    ELSE LET k == Head(keys)
             r == FreshRef(h)
         IN  AllocLists(Put(variables, k, ListVal(r)), Put(h, r, deep[k].items),
                        deep, Tail(keys))

\* json.load of a state dictionary: every list is a new object
LoadDict(d, h) ==
    IF "variables" \notin DOMAIN d THEN [dict |-> d, heap |-> h]
    ELSE LET deep == d.variables
             scalars == {k \in DOMAIN deep : deep[k].kind # "list"}
             a == AllocLists([k \in scalars |-> [kind |-> deep[k].kind, n |-> deep[k].n]],
                             h, deep, SetToList(DOMAIN deep \ scalars))
         IN  [dict |-> [d EXCEPT !.variables = a.variables], heap |-> a.heap]

\* load_game once json.load returned
SaveRead(w, story_id, ld) ==
    _restore_state([w EXCEPT !.heap = ld.heap], story_id, ld.dict)

\* SaveSystem.load_game, given the files of the saves directory
load_game(w, files, save_name) ==
    IF save_name \notin DOMAIN files THEN Result(FALSE, "Save file not found", w)
    ELSE IF files[save_name].story_id = None \/ DOMAIN files[save_name].state = {}
    THEN Result(FALSE, "Invalid save data.", w)
    ELSE SaveRead(w, files[save_name].story_id, LoadDict(files[save_name].state, w.heap))

\* the list objects a world still refers to
LiveRefs(w) ==
    LET Refs(variables) == {variables[k].n : k \in {x \in DOMAIN variables :
                                                      variables[x].kind = "list"}}
    IN  (IF HasState(w.state) THEN Refs(w.state.variables) ELSE {})
        \cup UNION {Refs(w.history[i].state.variables) : i \in DOMAIN w.history}

\* garbage collection
Collect(w) == [w EXCEPT !.heap = Restrict(w.heap, LiveRefs(w) \cap DOMAIN w.heap)]

-----------------------------------------------------------------------------
(* The actions story s1 registers, and the engine's own undo action *)

\* def train(gs): gs.player.update_stats(energy=gs.player.get_attribute('energy', 0) - 50)
train(w) ==
    Result(TRUE, "trained",
           [w EXCEPT !.state.player =
               update_stats(@, "energy", StatGet(@.stats, "energy", 0) - 50)])

\* def logit(gs): log = gs.variables.setdefault('log', []); log.append('x')
\* (while the list is shorter than MaxLog)
logit(w) ==
    LET has == "log" \in DOMAIN w.state.variables
        ref == IF has THEN w.state.variables["log"].n ELSE FreshRef(w.heap)
        w1 == IF has THEN w
              ELSE [w EXCEPT !.state.variables = Put(@, "log", ListVal(ref)),
                             !.heap = Put(@, ref, <<>>)]
    IN  Result(TRUE, "logged",
               IF Len(w1.heap[ref]) < MaxLog
               THEN [w1 EXCEPT !.heap[ref] = Append(@, "x")] ELSE w1)

\* TextAdventureEngine.undo_action
undo_action(w) == undo(w)

\* GameStateManager.execute_action
execute_action(w, action_id) ==
    IF action_id \notin w.actions THEN Result(TRUE, "Nothing happens.", w)
    ELSE CASE action_id = "train" -> train(w)
           [] action_id = "logit" -> logit(w)
           [] action_id = "undo" -> undo_action(w)
           [] OTHER -> Result(TRUE, "descriptor changed", w)

\* a change_scene that does not record the visit
ChangedUnvisited(w, scene_id) ==
    IF ~HasState(w.state) THEN w
    ELSE [w EXCEPT !.state.current_scene_id = scene_id]

\* GameStateManager.change_scene
change_scene(w, scene_id) ==
    IF ~HasState(w.state) THEN w
    ELSE [w EXCEPT !.state.current_scene_id = scene_id,
                   !.state.visited_scenes = @ \cup {scene_id}]

\* a handle_choice that leaves the cache alone
KeepCache(cache) == cache

\* handle_choice: self._scene_cache = {}
InvalidateCache(cache) == EmptyMap

\* handle_choice after a story transition: the new scene's text is rendered
Transitioned(t) ==
    IF t.ok THEN Result(TRUE, "<scene text>", get_current_scene_info(t.w).w)
    ELSE Result(TRUE, "Failed to transition to story", t.w)

\* handle_choice after the choice's action: the scene change and the result
Acted(a, choice) ==
    Result(TRUE, IF a.msg # "" THEN a.msg ELSE "You made your choice.",
           IF choice.next_scene # None THEN change_scene(a.w, choice.next_scene)
           ELSE a.w)

\* handle_choice once the snapshot is pushed and the cache cleared
ApplyChoice(w, choice) ==
    IF choice.next_story # None
    THEN Transitioned(transition_to_story(w, choice.next_story, choice.next_scene))
    ELSE Acted(IF choice.action_id # None THEN execute_action(w, choice.action_id)
               ELSE Result(TRUE, "", w),
               choice)

\* a handle_choice that takes its snapshot before it checks the index
ChooseFromPushFirst(info, choice_index) ==
    IF choice_index < 0 \/ choice_index >= Len(info.result.choices)
    THEN Result(FALSE, "Invalid choice.", push_state(info.w))
    ELSE ApplyChoice([push_state(info.w) EXCEPT !.cache = InvalidateCache(@)],
                     info.result.choices[choice_index + 1])

\* handle_choice once the available choices are rendered
ChooseFrom(info, choice_index) ==
    IF choice_index < 0 \/ choice_index >= Len(info.result.choices)
    THEN Result(FALSE, "Invalid choice.", info.w)
    ELSE ApplyChoice([push_state(info.w) EXCEPT !.cache = InvalidateCache(@)],
                     info.result.choices[choice_index + 1])

\* TextAdventureEngine.handle_choice
handle_choice(w, choice_index) == ChooseFrom(get_current_scene_info(w), choice_index)

\* self.engine.initialize_game() of the restart command
Reinitialized(l, g) == Result(l.ok /\ g.ok, "", g.w)

Reloaded(l) == Reinitialized(l, initialize_game(l.w, None, None, FALSE))

\* GameInterface._cmd_restart, once confirmed
restart(w) == Reloaded(load_story(w, w.story))

Initialized(g) == Result(g.ok, IF g.ok THEN "" ELSE "Failed to initialize game", g.w)

Loaded(l, player_name) ==
    IF ~l.ok THEN Result(FALSE, "Failed to load story", l.w)
    ELSE Initialized(initialize_game(l.w, player_name, None, FALSE))

\* main(): load the chosen story and start a game for the named player
main(w, story_id, player_name) == Loaded(load_story(w, story_id), player_name)

-----------------------------------------------------------------------------
(* The program: main() starts a game, then a frontend calls the engine.    *)

\* the engine as it stands
W ==
    [story |-> current_story_id, scenes |-> scenes, characters |-> characters,
     actions |-> actions, state |-> state, heap |-> heap,
     history |-> state_history, cache |-> scene_cache]

\* the engine before main() loads a story
NewEngine ==
    [story |-> None, scenes |-> EmptyMap, characters |-> <<>>, actions |-> {},
     state |-> NoState, heap |-> EmptyMap, history |-> <<>>, cache |-> EmptyMap]

Assign(w) ==
    /\ current_story_id' = w.story
    /\ scenes' = w.scenes
    /\ characters' = w.characters
    /\ actions' = w.actions
    /\ state' = w.state
    /\ heap' = w.heap
    /\ state_history' = w.history
    /\ scene_cache' = w.cache

Commit(w) == Assign(Collect(w))

\* the undo stack with every list written out
DumpHistory(w) ==
    [i \in DOMAIN w.history |->
        [story_id |-> w.history[i].story_id,
         state |-> DumpDict(w.history[i].state, w.heap)]]

\* what an operation may change, by value
Snap(w) ==
    [state |-> View(w.state, w.heap), story |-> w.story, scenes |-> w.scenes,
     history |-> DumpHistory(w)]

NoResult == TemplateResult(<<>>, <<>>)

\* the record of an operation: what it was, whether it succeeded, its
\* message, the render it served, whether that render was computed, and
\* the choice index it was given
OpRecord(op, ok, msg, fresh, result) ==
    [op |-> op, ok |-> ok, msg |-> msg, fresh |-> fresh, result |-> result, n |-> 0]

NoBase == [set |-> FALSE, used |-> FALSE, view |-> NoState, story |-> None,
           action |-> None, undone |-> NoState]

IsFresh(w) == HasCurrentScene(w) /\ w.state.current_scene_id \notin DOMAIN w.cache

\* a save made of story s3 while its file still loaded
OldSave ==
    [story_id |-> "s3",
     state |-> DumpDict(to_dict(create_game_state("start",
                   Character("Hero", TRUE, [energy |-> 80])), EmptyMap), EmptyMap)]

SaveNames == {"a"}

LoadNames == {"a", "old", "zz"}

ChoiceIndexes == -1 .. 6

\* no input before a function is applied on its own
NoArg == [none |-> TRUE]

Ghosts == UNCHANGED <<pushLog, rtDict, rtState, arg>>

Init ==
    /\ current_story_id = None
    /\ scenes = EmptyMap
    /\ characters = <<>>
    /\ actions = {}
    /\ state = NoState
    /\ heap = EmptyMap
    /\ state_history = <<>>
    /\ scene_cache = EmptyMap
    /\ saves = [n \in {"old"} |-> OldSave]
    /\ running = FALSE
    /\ last = OpRecord("init", TRUE, "", FALSE, NoResult)
    /\ pre = Snap(NewEngine)
    /\ base = NoBase
    /\ steps = 0
    /\ pushLog = <<>>
    /\ rtDict = NoState
    /\ rtState = NoState
    /\ arg = NoArg

Step(op) ==
    /\ steps < MaxSteps
    /\ steps' = steps + 1
    /\ pre' = Snap(W)
    /\ last' = op
    /\ Ghosts

Main(story_id, player_name) ==
    /\ ~running /\ last.op = "init"
    /\ \E r \in {main(W, story_id, player_name)} :
       /\ Commit(r.w)
       /\ running' = r.ok
       /\ Step(OpRecord("main", r.ok, r.msg, FALSE, NoResult))
    /\ UNCHANGED <<saves, base>>

Render ==
    /\ running
    /\ \E r \in {get_current_scene_info(W)} :
       /\ Commit(r.w)
       /\ Step(OpRecord("render", TRUE, "", IsFresh(W), r.result))
    /\ base' = NoBase
    /\ UNCHANGED <<saves, running>>

HandleChoice(i) ==
    /\ running
    /\ \E info \in {get_current_scene_info(W)} :
       \E r \in {ChooseFrom(info, i)}, u \in {undo(W)} :
          /\ Commit(r.w)
          /\ Step([OpRecord("choice", r.ok, r.msg, IsFresh(W), info.result)
                      EXCEPT !.n = i])
          \* base.undone: the state the undo command would have left here
          /\ base' = IF r.ok
                     THEN [set |-> TRUE, used |-> FALSE, view |-> View(state, heap),
                           story |-> current_story_id,
                           action |-> info.result.choices[i + 1].action_id,
                           undone |-> View(u.w.state, u.w.heap)]
                     ELSE NoBase
    /\ UNCHANGED <<saves, running>>

Undo ==
    /\ running
    /\ \E r \in {undo(W)} :
       /\ Commit(r.w)
       /\ Step(OpRecord("undo", r.ok, r.msg, FALSE, NoResult))
    /\ base' = IF base.set /\ ~base.used THEN [base EXCEPT !.used = TRUE] ELSE NoBase
    /\ UNCHANGED <<saves, running>>

Save(name) ==
    /\ running /\ HasState(state)
    /\ saves' = Put(saves, name, SaveData(W))
    /\ Step(OpRecord("save", TRUE, "Game saved", FALSE, NoResult))
    /\ base' = NoBase
    /\ UNCHANGED <<current_story_id, scenes, characters, actions, state, heap,
                   state_history, scene_cache, running>>

Load(name) ==
    /\ running
    /\ \E r \in {load_game(W, saves, name)} :
       /\ Commit(r.w)
       /\ Step(OpRecord("load", r.ok, r.msg, FALSE, NoResult))
    /\ base' = NoBase
    /\ UNCHANGED <<saves, running>>

Restart ==
    /\ running
    /\ \E r \in {restart(W)} :
       /\ Commit(r.w)
       /\ Step(OpRecord("restart", r.ok, r.msg, FALSE, NoResult))
    /\ base' = NoBase
    /\ UNCHANGED <<saves, running>>

Next ==
    \/ \E story_id \in StoryArguments, player_name \in PlayerNames :
          Main(story_id, player_name)
    \/ Render
    \/ \E i \in ChoiceIndexes : HandleChoice(i)
    \/ Undo
    \/ \E name \in SaveNames : Save(name)
    \/ \E name \in LoadNames : Load(name)
    \/ Restart

Spec == Init /\ [][Next]_vars

-----------------------------------------------------------------------------
(* Properties of the game loop.  A render is the computation of            *)
(* get_current_scene_info past its cache; last.fresh says the operation    *)
(* computed one, and last.result is what it served.                        *)

\* what the next get_current_scene_info() returns
CurrentRender == get_current_scene_info(W).result

\* a fresh render of the current scene against the current game state
FreshRender ==
    IF HasCurrentScene(W) THEN RenderScene(scenes[state.current_scene_id], state)
    ELSE NoCurrentScene

\* the scene the last operation rendered
RenderedScene == pre.scenes[pre.state.current_scene_id]

Rendered == last.op \in {"render", "choice"} /\ last.fresh

\* C1: a valid handle_choice(i) that runs a story action, a goto or a story
\* transition, followed at once by undo(), leaves the game state equal on
\* all serializable fields to what it was before the choice, in the story
\* it was in.  (The engine's own undo action pops the snapshot itself.)
C1_UndoRestoresState ==
    (base.set /\ base.used /\ base.action # "undo")
        => (View(state, heap) = base.view /\ current_story_id = base.story)

\* C2: after handle_choice applies a valid choice, and after a successful
\* undo() or load_game(), the next get_current_scene_info() equals a fresh
\* render of the current scene against the current game state.
C2_CacheNeverStale ==
    (last.op \in {"choice", "undo", "load"} /\ last.ok)
        => CurrentRender = FreshRender

\* a valid choice that stays in a scene whose cached render it outdates
C2_Witness ==
    /\ last.op = "choice" /\ last.ok /\ ~last.fresh
    /\ HasCurrentScene(W)
    /\ state.current_scene_id = pre.state.current_scene_id
    /\ last.result # FreshRender
    /\ CurrentRender = FreshRender

\* C3: after a successful load_story followed by initialize_game (main's
\* start, the restart command), get_current_scene_info() returns no text
\* or choices rendered before the load.
C3_LoadInvalidatesCache ==
    (last.op \in {"main", "restart"} /\ last.ok) => CurrentRender = FreshRender

\* a declared choice's condition is absent or evaluates true
AbsentOrTrue(c, s) ==
    \/ c.condition.k = "none"
    \/ evaluate_condition(c.condition, s) = Value(TRUE)

\* the declared choices that pass, in declaration order, as rendered
DeclaredKept(scene, s) ==
    LET kept == {i \in DOMAIN scene.choices : AbsentOrTrue(scene.choices[i], s)}
        Nth(k) == CHOOSE i \in kept : Cardinality({j \in kept : j < i}) = k - 1
    IN  [k \in 1..Cardinality(kept) |->
            [scene.choices[Nth(k)] EXCEPT !.condition = NoCond]]

\* the choice lines of the rendered body, in text order
ExtractedInOrder(scene, s) ==
    LET body == IF scene.content = <<>> THEN <<>>
                ELSE _process_conditionals(scene.content, s)
        at == {i \in DOMAIN body : body[i].k = "choice"}
        Nth(k) == CHOOSE i \in at : Cardinality({j \in at : j < i}) = k - 1
    IN  [k \in 1..Cardinality(at) |-> ExtractChoice(body[Nth(k)])]

\* C6: the choice list of every scene render is the declared choices whose
\* condition is absent or true, in declaration order, followed by the
\* choices extracted from the rendered body, in text order.
C6_ChoiceListOrder ==
    Rendered => last.result.choices = DeclaredKept(RenderedScene, pre.state)
                                      \o ExtractedInOrder(RenderedScene, pre.state)

\* a render with two kept declarations around a dropped one and two
\* extracted choices
C6_Witness ==
    /\ Rendered
    /\ Len(DeclaredKept(RenderedScene, pre.state)) >= 2
    /\ Len(DeclaredKept(RenderedScene, pre.state)) < Len(RenderedScene.choices)
    /\ Len(ExtractedInOrder(RenderedScene, pre.state)) >= 2
    /\ last.result.choices[1].text = "Train"
    /\ last.result.choices[Len(last.result.choices)].text = "Jog"

\* every declared choice has a condition that evaluates false (or fails),
\* and the rendered body yields no choice
EndOfStory(scene, s) ==
    /\ \A i \in DOMAIN scene.choices :
          /\ scene.choices[i].condition.k # "none"
          /\ evaluate_condition(scene.choices[i].condition, s) = Value(FALSE)
    /\ ExtractedInOrder(scene, s) = <<>>

\* C7: a scene whose declared choices all have false conditions and whose
\* body yields no choice renders with an empty choice list, and with an
\* empty choice list every index given to handle_choice is invalid.
C7_EndOfStory ==
    /\ (Rendered /\ EndOfStory(RenderedScene, pre.state))
          => last.result.choices = <<>>
    /\ (last.op = "choice" /\ last.result.choices = <<>>)
          => (~last.ok /\ last.msg = "Invalid choice.")

\* index 0 rejected in a scene with declared choices, none of which passes
C7_Witness ==
    /\ last.op = "choice" /\ last.fresh /\ last.n = 0
    /\ RenderedScene.choices # <<>>
    /\ EndOfStory(RenderedScene, pre.state)
    /\ last.msg = "Invalid choice."

OutOfRange == last.op = "choice" /\ (last.n < 0 \/ last.n >= Len(last.result.choices))

\* C8: handle_choice(i) with i < 0 or i >= the number of rendered choices
\* returns "Invalid choice." and leaves the game state, the loaded story
\* and the undo stack as they were.
C8_InvalidChoiceMutatesNothing ==
    OutOfRange => (~last.ok /\ last.msg = "Invalid choice." /\ Snap(W) = pre)

\* an index one past the last of several choices, with snapshots on the stack
C8_Witness ==
    /\ OutOfRange
    /\ last.n = Len(last.result.choices) /\ last.n > 0
    /\ state_history # <<>>
    /\ "log" \in DOMAIN state.variables
    /\ last.msg = "Invalid choice."

LoadFailed ==
    \/ last.op = "load" /\ ~last.ok
    \/ last.op = "choice" /\ last.msg = "Failed to transition to story"

\* C9: whenever load_game(name) or load_story(id) reports failure, the game
\* state, the current story id and the scene graph are what they were
\* before the call.
C9_FailedLoadLeavesState ==
    LoadFailed => /\ View(state, heap) = pre.state
                  /\ current_story_id = pre.story
                  /\ scenes = pre.scenes

\* eval raises on the expression
Fails(e, s) == PyEval(e, EvaluatorInts(s), EvaluatorObjects(s), s, FALSE).err

Conditional(scene) == {i \in DOMAIN scene.choices : scene.choices[i].condition.k # "none"}

\* C10: evaluating a choice condition never propagates an error: a failing
\* expression evaluates to false, the declared choice carrying it is left
\* out of the rendered list, and the other choices are rendered.
C10_ConditionErrorIsFalse ==
    Rendered =>
        /\ \A i \in Conditional(RenderedScene) :
              LET e == RenderedScene.choices[i].condition IN
              /\ ~evaluate(e, pre.state).err
              /\ Fails(e, pre.state) =>
                    /\ ~evaluate(e, pre.state).val
                    /\ \A k \in DOMAIN last.result.choices :
                          last.result.choices[k].text # RenderedScene.choices[i].text
        /\ \A i \in DOMAIN RenderedScene.choices \ Conditional(RenderedScene) :
              \E k \in DOMAIN last.result.choices :
                  last.result.choices[k].text = RenderedScene.choices[i].text

\* a render that drops a choice whose condition raised and keeps the others
C10_Witness ==
    /\ Rendered
    /\ \E i \in Conditional(RenderedScene) :
          Fails(RenderedScene.choices[i].condition, pre.state)
    /\ \E i \in Conditional(RenderedScene) :
          /\ RenderedScene.choices[i].condition.k = "stat"
          /\ Fails(RenderedScene.choices[i].condition, pre.state)
    /\ Len(last.result.choices) >= 1

\* the choice the latest handle_choice was given, when its index was valid
Chosen == last.result.choices[last.n + 1]

\* the latest operation was a handle_choice whose choice names a story, and
\* transition_to_story returned True
StoryTransition ==
    /\ last.op = "choice" /\ ~OutOfRange
    /\ Chosen.next_story # None
    /\ last.msg = "<scene text>"

\* C23: after a successful transition_to_story(storyId, scene) the player
\* has the name, attributes, inventory and relationships it had before,
\* the loaded story is storyId, and a given scene is the current scene and
\* is in the visited set.
C23_TransitionKeepsPlayer ==
    StoryTransition
        => /\ state.player = pre.state.player
           /\ current_story_id = Chosen.next_story
           /\ Chosen.next_scene # None
                 => /\ state.current_scene_id = Chosen.next_scene
                    /\ Chosen.next_scene \in state.visited_scenes

\* a transition from s2 to scene gym of s1 with a player who trained before
C23_Witness ==
    /\ StoryTransition
    /\ Chosen.next_story = "s1" /\ Chosen.next_scene = "gym"
    /\ pre.story = "s2"
    /\ state.current_scene_id = "gym"
    /\ state.player.name = "Hero"
    /\ state.player.stats = [energy |-> 30]

\* C26: a choice whose action is the built-in undo action leaves the game
\* state as the undo text command issued in its place would have left it:
\* reverted to what it was before the previously applied choice.
C26_UndoChoiceIsUndo ==
    (/\ last.op = "choice" /\ last.ok /\ ~OutOfRange
     /\ Chosen.action_id = "undo" /\ Chosen.next_scene = None
     /\ Chosen.next_story = None)
        => View(state, heap) = base.undone

\* the snapshot on top of the undo stack, every list written out
TopSnapshot == DumpHistory(W)[Len(state_history)]

\* C27: the snapshot a valid handle_choice pushes holds, after the choice
\* has mutated the live state, the values the state had at push time,
\* list-valued variables and character attributes included.
C27_SnapshotUnchangedByMutation ==
    (/\ last.op = "choice" /\ last.ok /\ ~OutOfRange
     /\ Chosen.action_id # "undo")
        => /\ state_history # <<>>
           /\ TopSnapshot.state.variables = pre.state.variables
           /\ TopSnapshot.state.player = Character_to_dict(pre.state.player)
           /\ TopSnapshot.state.current_scene_id = pre.state.current_scene_id

\* C28: in every state the game reaches by handle_choice (change_scene,
\* story transitions, actions), undo, save_game, load_game of a save that
\* save_game wrote and restart, the current scene id is in the set of
\* visited scenes.
C28_CurrentSceneVisited ==
    HasState(state) => state.current_scene_id \in state.visited_scenes

\* a game loaded from a save made in scene gym after the move from start
C28_Witness ==
    /\ last.op = "load" /\ last.ok
    /\ state.current_scene_id = "gym"
    /\ state.visited_scenes = {"start", "gym"}

\* C29: an undo() that fails because the snapshot's story cannot be
\* reloaded or the snapshot cannot be restored leaves the game state, the
\* loaded story and the undo stack as they were: the snapshot is still on
\* the stack.
C29_FailedUndoKeepsHistory ==
    (last.op = "undo" /\ ~last.ok /\ pre.history # <<>>)
        => /\ View(state, heap) = pre.state
           /\ current_story_id = pre.story
           /\ DumpHistory(W) = pre.history

\* the declarations of the loaded story that hold is_player: true
DeclaredPlayers == {i \in DOMAIN characters : characters[i].is_player}

\* C30: when the loaded story declares a character with is_player: true,
\* with or without a template import, initialize_game succeeds, the game's
\* player has that character's declared attributes, and every other
\* declared character is an NPC.
C30_DeclaredPlayerIsPlayer ==
    (last.op = "main" /\ current_story_id # None /\ DeclaredPlayers # {})
        => /\ last.ok /\ HasState(state)
           /\ \A i \in DeclaredPlayers :
                 /\ state.player.is_player
                 /\ \A k \in DOMAIN characters[i].data :
                       /\ HasStat(state.player.stats, k)
                       /\ state.player.stats[k] = characters[i].data[k]
           /\ DOMAIN state.npcs
                = {characters[i].name : i \in DOMAIN characters \ DeclaredPlayers}

\* C12: in a choice condition outside templates every stat name the
\* player has is a top-level identifier bound to its value: a statically
\* declared choice whose condition compares such a name, and holds of the
\* stat's value, is in the rendered choice list.
C12_StatNamesBound ==
    Rendered =>
       \A i \in DOMAIN RenderedScene.choices :
          (/\ RenderedScene.choices[i].condition.k = "name"
           /\ HasStat(pre.state.player.stats, RenderedScene.choices[i].condition.name)
           /\ Compare(pre.state.player.stats[RenderedScene.choices[i].condition.name],
                      RenderedScene.choices[i].condition.op,
                      RenderedScene.choices[i].condition.n))
          => \E j \in DOMAIN last.result.choices :
                last.result.choices[j].text = RenderedScene.choices[i].text

-----------------------------------------------------------------------------
(* The undo stack on its own: snapshots pushed as handle_choice pushes     *)
(* them, each followed by a scene change, and undo commands.  pushLog is   *)
(* the stack a history without capacity would hold.                        *)

\* a game of story s1, started
Started == main(NewEngine, "s1", "Hero").w

InitStack ==
    /\ current_story_id = Started.story
    /\ scenes = Started.scenes
    /\ characters = Started.characters
    /\ actions = Started.actions
    /\ state = Started.state
    /\ heap = EmptyMap
    /\ state_history = <<>>
    /\ scene_cache = EmptyMap
    /\ saves = EmptyMap
    /\ running = TRUE
    /\ last = OpRecord("init", TRUE, "", FALSE, NoResult)
    /\ pre = Snap(Started)
    /\ base = NoBase
    /\ steps = 0
    /\ pushLog = <<>>
    /\ rtDict = NoState
    /\ rtState = NoState
    /\ arg = NoArg

\* how many times in a row the operation has now succeeded
Run(op) == IF last.op = op THEN last.n + 1 ELSE 1

\* push_state as handle_choice calls it, then the choice's scene change
StackPush(scene_id) ==
    /\ steps < HistorySize + ExtraPushes
    /\ steps' = steps + 1
    /\ Commit(change_scene(push_state(W), scene_id))
    /\ pushLog' = Append(pushLog, Snapshot(W))
    /\ last' = [OpRecord("push", TRUE, "", FALSE, NoResult) EXCEPT !.n = Run("push")]
    /\ pre' = Snap(W)
    /\ UNCHANGED <<saves, running, base, rtDict, rtState, arg>>

\* the undo command
StackUndo ==
    /\ \E r \in {undo(W)} :
          /\ Commit(r.w)
          /\ last' = [OpRecord("undo", r.ok, r.msg, FALSE, NoResult) EXCEPT
                         !.n = IF r.ok THEN Run("undo")
                               ELSE IF last.op = "undo" THEN last.n ELSE 0]
    /\ pushLog' = IF state_history # <<>> THEN Prefix(pushLog, Len(pushLog) - 1)
                  ELSE pushLog
    /\ pre' = Snap(W)
    /\ UNCHANGED <<saves, running, base, steps, rtDict, rtState, arg>>

NextStack ==
    \/ \E scene_id \in {"gym", "end"} : StackPush(scene_id)
    \/ StackUndo

SpecStack == InitStack /\ [][NextStack]_vars

\* C4: the undo stack never holds more than its capacity N; it is always
\* the most recent snapshots of those pushed and not undone, in push order,
\* and exactly N of them once N or more were pushed in a row; undo restores
\* the most recent snapshot, at most N undos in a row succeed, and undo
\* fails on the empty stack, whatever was evicted.
C4_StackKeepsMostRecent ==
    /\ Len(state_history) <= HistorySize
    /\ Len(state_history) <= Len(pushLog)
    /\ state_history = Suffix(pushLog, Len(state_history))
    /\ (last.op = "push" /\ last.n >= HistorySize) => Len(state_history) = HistorySize
    /\ (last.op = "undo" /\ last.ok) =>
          /\ last.n <= HistorySize
          /\ DumpDict(to_dict(state, heap), heap) = pre.history[Len(pre.history)].state
    /\ (last.op = "undo" /\ ~last.ok) =>
          /\ pre.history = <<>>
          /\ View(state, heap) = pre.state

\* N + ExtraPushes snapshots pushed in a row, N undos, and one undo more:
\* the ExtraPushes oldest snapshots are out of reach
C4_Witness ==
    /\ last.op = "undo" /\ ~last.ok /\ last.n = HistorySize
    /\ steps = HistorySize + ExtraPushes
    /\ Len(pushLog) = ExtraPushes
    /\ state_history = <<>>

-----------------------------------------------------------------------------
(* The snapshot round trip on its own: to_dict of a game state, then       *)
(* from_dict of the dictionary.                                            *)

\* list objects of the round trip's states: a list of strings, and a list
\* that holds an object json cannot serialize
RoundTripHeap == [r \in {1, 2} |-> IF r = 1 THEN <<"x", "y">> ELSE <<"x", ObjItem>>]

RoundTripVariables ==
    [count |-> IntVal(3), log |-> ListVal(1), mixed |-> ListVal(2), handle |-> ObjVal]

RoundTripPlayers ==
    {Character("Player", TRUE, EmptyMap),
     [Character("Hero", TRUE, [energy |-> 80]) EXCEPT
         !.inventory = <<"key", "rope">>, !.relationships = [Ann |-> 5]]}

RoundTripNpcs ==
    {EmptyMap,
     [n \in {"Ann"} |-> [Character("Ann", FALSE, [mood |-> 3]) EXCEPT
                            !.inventory = <<"map">>, !.relationships = [Hero |-> 2]]]}

RoundTripStates ==
    {[GameState(scene_id, player) EXCEPT
         !.npcs = npcs, !.visited_scenes = visited, !.completed_events = completed,
         !.variables = Restrict(RoundTripVariables, names),
         !.day = day, !.time_of_day = time_of_day] :
       scene_id \in {"start", "gym"}, player \in RoundTripPlayers,
       npcs \in RoundTripNpcs, visited \in SUBSET {"start", "gym"},
       completed \in SUBSET {"met_ann"},
       names \in SUBSET DOMAIN RoundTripVariables,
       day \in {1, 2}, time_of_day \in {"morning", "evening"}}

InitRoundTrip ==
    /\ rtState \in RoundTripStates
    /\ rtDict = NoState
    /\ state = NoState
    /\ heap = RoundTripHeap
    /\ current_story_id = None
    /\ scenes = EmptyMap
    /\ characters = <<>>
    /\ actions = {}
    /\ state_history = <<>>
    /\ scene_cache = EmptyMap
    /\ saves = EmptyMap
    /\ running = FALSE
    /\ last = OpRecord("init", TRUE, "", FALSE, NoResult)
    /\ pre = Snap(NewEngine)
    /\ base = NoBase
    /\ steps = 0
    /\ pushLog = <<>>
    /\ arg = NoArg

\* state.to_dict()
ToDict ==
    /\ last.op = "init"
    /\ rtDict' = to_dict(rtState, heap)
    /\ last' = OpRecord("to_dict", TRUE, "", FALSE, NoResult)
    /\ UNCHANGED <<current_story_id, scenes, characters, actions, state, heap,
                   state_history, scene_cache, saves, running, pre, base, steps,
                   pushLog, rtState, arg>>

\* GameState.from_dict(the dictionary)
FromDict ==
    /\ last.op = "to_dict"
    /\ state' = from_dict(rtDict)
    /\ last' = OpRecord("from_dict", TRUE, "", FALSE, NoResult)
    /\ UNCHANGED <<current_story_id, scenes, characters, actions, heap,
                   state_history, scene_cache, saves, running, pre, base, steps,
                   pushLog, rtDict, rtState, arg>>

NextRoundTrip == ToDict \/ FromDict

SpecRoundTrip == InitRoundTrip /\ [][NextRoundTrip]_vars

\* json can serialize the value: a scalar, or a list of strings
JsonSafe(v) ==
    \/ v.kind = "int"
    \/ v.kind = "list" /\ \A i \in DOMAIN heap[v.n] : heap[v.n][i] # ObjItem

\* C5: from_dict(to_dict(s)) equals s on the current scene id, the player,
\* the NPCs (stats, inventory and relationships of each), the visited set,
\* the completed-event set, the day, the time of day and every JSON-safe
\* variable; a variable json cannot serialize is in s and not in the result.
C5_RoundTrip ==
    last.op = "from_dict" =>
        /\ state.current_scene_id = rtState.current_scene_id
        /\ state.player = rtState.player
        /\ state.npcs = rtState.npcs
        /\ state.visited_scenes = rtState.visited_scenes
        /\ state.completed_events = rtState.completed_events
        /\ state.day = rtState.day
        /\ state.time_of_day = rtState.time_of_day
        /\ DOMAIN state.variables =
              {k \in DOMAIN rtState.variables : JsonSafe(rtState.variables[k])}
        /\ \A k \in DOMAIN state.variables :
              /\ state.variables[k].kind = rtState.variables[k].kind
              /\ IF state.variables[k].kind = "list"
                 THEN heap[state.variables[k].n] = heap[rtState.variables[k].n]
                 ELSE state.variables[k].n = rtState.variables[k].n

\* the round trip of a state with an NPC, an inventory, two visited scenes,
\* a completed event and variables of every kind
C5_Witness ==
    /\ last.op = "from_dict"
    /\ rtState.npcs # EmptyMap
    /\ rtState.player.inventory # <<>>
    /\ Cardinality(rtState.visited_scenes) = 2
    /\ rtState.completed_events # {}
    /\ DOMAIN rtState.variables = DOMAIN RoundTripVariables
    /\ DOMAIN state.variables = {"count", "log"}
    /\ state.npcs["Ann"].inventory = <<"map">>

-----------------------------------------------------------------------------
(* The game state on its own: advance_time, update_stats and the           *)
(* evaluation of one expression of story text, applied to a game state as  *)
(* a story function, a choice condition or a template tag applies them.    *)
(* arg holds the arguments of the latest call.                             *)

\* calls per behaviour
MaxCalls == 4

TimePlayers ==
    {Character("Player", TRUE, EmptyMap),
     Character("Hero", TRUE, [energy |-> 150, motivation |-> 1,
                              days_since_exercise |-> 4, meals_today |-> 2,
                              sleep_hours |-> 5]),
     Character("Hero", TRUE, [days_since_exercise |-> 4, meals_today |-> 3]),
     Character("Hero", TRUE, [energy |-> 95, motivation |-> 50, sleep_hours |-> 9])}

TimeNpcs ==
    {EmptyMap,
     [n \in {"Ann"} |-> Character("Ann", FALSE, [meals_today |-> 1])],
     [n \in {"Ann", "Bob"} |->
         IF n = "Ann" THEN Character("Ann", FALSE, [days_since_exercise |-> 5])
         ELSE Character("Bob", FALSE, [meals_today |-> 2, energy |-> 50,
                                       sleep_hours |-> 9])]}

TimeStates ==
    {[GameState("start", player) EXCEPT
         !.npcs = npcs, !.day = day, !.time_of_day = time_of_day] :
       player \in TimePlayers, npcs \in TimeNpcs, day \in {1},
       time_of_day \in {TimePeriods[i] : i \in DOMAIN TimePeriods}}

\* the expressions a story's conditions and tags are drawn from
StoryExpressions ==
    {EnergyOver(50), Expr("complete_event", "met_ann", "", 0), Expr("update_stats", "energy", "", 0),
     Expr("advance_time", "", "", 0)}

StatNames == {"energy", "mood"}

StatValues == {-50, 150}

InitState ==
    /\ state \in TimeStates
    /\ current_story_id = None
    /\ scenes = EmptyMap
    /\ characters = <<>>
    /\ actions = {}
    /\ heap = EmptyMap
    /\ state_history = <<>>
    /\ scene_cache = EmptyMap
    /\ saves = EmptyMap
    /\ running = TRUE
    /\ last = OpRecord("init", TRUE, "", FALSE, NoResult)
    /\ pre = Snap(NewEngine)
    /\ base = NoBase
    /\ steps = 0
    /\ pushLog = <<>>
    /\ rtDict = NoState
    /\ rtState = NoState
    /\ arg = NoArg

\* a call on the game state: nothing of the engine around it changes
Call(op) ==
    /\ steps < MaxCalls
    /\ steps' = steps + 1
    /\ pre' = Snap(W)
    /\ last' = op
    /\ UNCHANGED <<current_story_id, scenes, characters, actions, heap,
                   state_history, scene_cache, saves, running, pushLog, rtDict,
                   rtState>>

\* game_state.advance_time(), as a story function calls it
AdvanceTime ==
    /\ \E r \in {advance_time(state)} :
          /\ state' = r.s
          /\ Call([OpRecord("advance_time", ~r.raised, "", FALSE, NoResult)
                      EXCEPT !.n = Run("advance_time")])
    /\ base' = IF last.op = "advance_time" THEN base
               ELSE [NoBase EXCEPT !.set = TRUE, !.view = View(state, heap)]
    /\ arg' = NoArg

\* character.update_stats(key=value) on the player or an NPC
UpdateStats(name, key, value) ==
    /\ name = state.player.name \/ name \in DOMAIN state.npcs
    /\ state' = IF name = state.player.name
                THEN [state EXCEPT !.player = update_stats(@, key, value)]
                ELSE [state EXCEPT !.npcs[name] = update_stats(@, key, value)]
    /\ Call(OpRecord("update_stats", TRUE, "", FALSE, NoResult))
    /\ base' = NoBase
    /\ arg' = [name |-> name, key |-> key, value |-> value]

\* evaluate_condition(condition) of a statically declared choice
Evaluate(e) ==
    /\ state' = Evaluated(e, state)
    /\ Call(OpRecord("evaluate", evaluate_condition(e, state).val, "", FALSE, NoResult))
    /\ base' = NoBase
    /\ arg' = [expression |-> e]

\* eval of the condition of a template tag
EvaluateTag(e) ==
    /\ state' = Evaluated(e, state)
    /\ Call(OpRecord("tag", IsTrue(SegmentCondition([cond |-> e], state)), "",
                     FALSE, NoResult))
    /\ base' = NoBase
    /\ arg' = [expression |-> e]

NextState ==
    \/ AdvanceTime
    \/ \E name \in {"Player", "Hero", "Ann"}, key \in StatNames,
          value \in StatValues : UpdateStats(name, key, value)
    \/ \E e \in StoryExpressions : Evaluate(e)
    \/ \E e \in StoryExpressions : EvaluateTag(e)

SpecState == InitState /\ [][NextState]_vars

\* C11: evaluating a choice condition or a template expression leaves the
\* game state unchanged: player and NPC attributes, variables, completed
\* events, visited set, current scene, day and time of day.
C11_EvaluationReadOnly ==
    last.op \in {"evaluate", "tag"} => View(state, heap) = pre.state

\* the characters of a game state, by name
Everyone(s) == Put(s.npcs, s.player.name, s.player)

InRange(v) == v >= 0 /\ v <= 100

\* C15: update_stats never leaves a clamped attribute outside [0,100]:
\* the attribute it writes is in the range afterwards whatever value was
\* supplied, and no call on the game state, in any order, takes a clamped
\* attribute out of the range.
C15_ClampedStatsInRange ==
    /\ (last.op = "update_stats" /\ arg.key \in ClampedNames) =>
          InRange(Everyone(state)[arg.name].stats[arg.key])
    /\ last.op # "init" =>
          \A n \in DOMAIN Everyone(state) :
             \A k \in DOMAIN Everyone(state)[n].stats \cap ClampedNames :
                (k \in DOMAIN Everyone(pre.state)[n].stats
                   /\ InRange(Everyone(pre.state)[n].stats[k]))
                => InRange(Everyone(state)[n].stats[k])

\* energy driven to 0 by one update and then to 100 by the next
C15_Witness ==
    /\ last.op = "update_stats" /\ arg.key = "energy" /\ arg.value = 150
    /\ arg.name = "Hero"
    /\ "energy" \in DOMAIN pre.state.player.stats
    /\ pre.state.player.stats["energy"] = 0
    /\ state.player.stats["energy"] = 100

\* C16: each advance_time call moves one step through morning, afternoon,
\* evening, night, morning; the day changes only on the step from night to
\* morning, by exactly 1; four successive calls from the morning of day N
\* end on the morning of day N+1.
C16_FourStepsADay ==
    /\ last.op = "advance_time" =>
          /\ state.time_of_day =
                TimePeriods[(PeriodIndex(pre.state.time_of_day) % 4) + 1]
          /\ state.day = IF pre.state.time_of_day = "night"
                         THEN pre.state.day + 1 ELSE pre.state.day
    /\ (last.op = "advance_time" /\ last.n = 4
          /\ base.view.time_of_day = "morning") =>
          (state.day = base.view.day + 1 /\ state.time_of_day = "morning")

\* four calls in a row from a morning, with an NPC to update on the last
C16_Witness ==
    /\ last.op = "advance_time" /\ last.n = 4 /\ last.ok
    /\ base.view.time_of_day = "morning"
    /\ state.npcs # EmptyMap
    /\ state.day = base.view.day + 1 /\ state.time_of_day = "morning"

\* C17: on each advance_time call that does not cross a day boundary every
\* character's days_since_exercise grows by exactly 1, and on the call that
\* crosses from night to morning every character's meals_today is 0
\* afterwards.
C17_DailyCounters ==
    last.op = "advance_time" =>
       \A n \in DOMAIN Everyone(state) :
          IF pre.state.time_of_day = "night"
          THEN StatGet(Everyone(state)[n].stats, "meals_today", -1) = 0
          ELSE StatGet(Everyone(state)[n].stats, "days_since_exercise", 0)
               = StatGet(Everyone(pre.state)[n].stats, "days_since_exercise", 0) + 1

\* C25: the advance_time call that crosses from night to morning completes
\* without raising whatever attributes the characters have, and afterwards
\* every character has meals_today = 0, days_since_exercise one higher
\* than before, and motivation and energy within [0,100].
C25_DailyPassNeverRaises ==
    (last.op = "advance_time" /\ pre.state.time_of_day = "night")
    => /\ last.ok
       /\ \A n \in DOMAIN Everyone(state) :
             /\ StatGet(Everyone(state)[n].stats, "meals_today", -1) = 0
             /\ StatGet(Everyone(state)[n].stats, "days_since_exercise", 0)
                  = StatGet(Everyone(pre.state)[n].stats, "days_since_exercise", 0) + 1
             /\ InRange(StatGet(Everyone(state)[n].stats, "motivation", 0))
             /\ InRange(StatGet(Everyone(state)[n].stats, "energy", 0))

-----------------------------------------------------------------------------
(* Story text on its own: a scene section is parsed, then its first scene  *)
(* is rendered against a game state.  arg holds the section: its lines,    *)
(* and for a section made of one conditional block the conditions of the   *)
(* block's branches and whether it has an else.                            *)

\* branches (if and elifs) of a conditional block
MaxBranches == 4

BranchBody(i) == Text(<<"b1", "b2", "b3", "b4", "b5", "b6">>[i])

ElseBody == Text("else")

RECURSIVE Branches(_, _)
\* {% if c1 %} b1 {% elif c2 %} b2 ...
Branches(conds, i) ==
    IF i > Len(conds) THEN <<>>
    ELSE <<IF i = 1 THEN IfTag(conds[i]) ELSE ElifTag(conds[i]), BranchBody(i)>>
         \o Branches(conds, i + 1)

Block(conds, has_else) ==
    Branches(conds, 1)
    \o (IF has_else THEN <<ElseTag, ElseBody>> ELSE <<>>)
    \o <<EndifTag(TRUE)>>

BlockConditions ==
    {EnergyOver(50), Expr("completed", "met_ann", "", 0), BareEnergyOver(50)}

BlockSections ==
    {[lines |-> <<Header("t")>> \o Block(conds, has_else),
      conds |-> conds, has_else |-> has_else] :
        conds \in UNION {[1..n -> BlockConditions] : n \in 1..MaxBranches},
        has_else \in BOOLEAN}

\* {% if energy > 50 %}strong{% else %}weak{% endif %}
StrongOrWeak ==
    [lines |-> <<Header("t"), IfTag(BareEnergyOver(50)), Text("strong"), ElseTag,
                 Text("weak"), EndifTag(TRUE)>>,
     conds |-> <<>>, has_else |-> TRUE]

\* * Go north -> fight goto:forest if energy > 20
GoNorth == ChoiceLine("Go north", "fight", "forest", None, BareEnergyOver(20))

\* * Go -> goto:a if player.stats.energy > 50 else goto:b
GoEither == [ChoiceLine("Go", None, "a", None, EnergyOver(50)) EXCEPT !.egoto = "b"]

\* * Leave -> goto:a
Leave == ChoiceLine("Leave", None, "a", None, NoCond)

\* a closed conditional block that holds a choice line, or nothing
ClosedBlocks ==
    {<<>>}
    \cup {<<IfTag(EnergyOver(50)), ChoiceLine("In", None, "a", None, NoCond),
            EndifTag(spaced)>> : spaced \in BOOLEAN}
    \cup {<<IfTag(EnergyOver(50)), ChoiceLine("In", None, "a", None, NoCond),
            ElifTag(EnergyOver(20)), Text("some"), EndifTag(spaced)>> :
             spaced \in BOOLEAN}

\* scene t, a closed block or none, and a choice line after it in scene t
\* or in the next scene
ChoiceSections ==
    {[lines |-> <<Header("t"), Text("hello")>> \o closed
                \o (IF later THEN <<Header("u"), Text("next")>> ELSE <<>>)
                \o <<line>>,
      conds |-> <<>>, has_else |-> FALSE] :
        closed \in ClosedBlocks, later \in BOOLEAN,
        line \in {GoNorth, GoEither, Leave}}

\* scene t with an @goto:u directive after its text or as its only line,
\* alone or followed by scene u
GotoSections ==
    {[lines |-> <<Header("t")>> \o body \o <<GotoDirective("u")>> \o later,
      conds |-> <<>>, has_else |-> FALSE] :
        body \in {<<>>, <<Text("hello")>>},
        later \in {<<>>, <<Header("u"), Text("next")>>}}

\* scene t whose text ends with {% if c %}@goto:u{% endif %}
InlineGotoSections ==
    {[lines |-> <<Header("t"), Text("hello"), InlineGoto(c, "u"),
                  Header("u"), Text("next")>>,
      conds |-> <<>>, has_else |-> FALSE] :
        c \in {EnergyOver(50), Expr("completed", "met_ann", "", 0)}}

TextStates ==
    {[GameState("t", player) EXCEPT !.completed_events = completed] :
        player \in {Character("Hero", TRUE, [energy |-> 80]),
                    Character("Hero", TRUE, [energy |-> 30]),
                    Character("Player", TRUE, EmptyMap)},
        completed \in SUBSET {"met_ann"}}

InitText ==
    /\ arg \in BlockSections \cup ChoiceSections \cup GotoSections
               \cup InlineGotoSections \cup {StrongOrWeak}
    /\ state \in TextStates
    /\ current_story_id = None
    /\ scenes = EmptyMap
    /\ characters = <<>>
    /\ actions = {}
    /\ heap = EmptyMap
    /\ state_history = <<>>
    /\ scene_cache = EmptyMap
    /\ saves = EmptyMap
    /\ running = TRUE
    /\ last = OpRecord("init", TRUE, "", FALSE, NoResult)
    /\ pre = Snap(NewEngine)
    /\ base = NoBase
    /\ steps = 0
    /\ pushLog = <<>>
    /\ rtDict = NoState
    /\ rtState = NoState

\* parser._process_scenes(the section's lines)
ParseSection ==
    /\ last.op = "init"
    /\ \E p \in {_process_scenes(scenes, arg.lines)} :
          /\ scenes' = p.scenes
          /\ last' = OpRecord("parse", ~p.raised, "", FALSE, NoResult)
    /\ pre' = Snap(W)
    /\ UNCHANGED <<current_story_id, characters, actions, state, heap,
                   state_history, scene_cache, saves, running, base, steps,
                   pushLog, rtDict, rtState, arg>>

\* get_current_scene_info() once the section is parsed
RenderSection ==
    /\ last.op = "parse" /\ last.ok
    /\ \E r \in {get_current_scene_info(W)} :
          /\ scene_cache' = r.w.cache
          /\ last' = OpRecord("render", TRUE, "", IsFresh(W), r.result)
    /\ pre' = Snap(W)
    /\ UNCHANGED <<current_story_id, scenes, characters, actions, state, heap,
                   state_history, saves, running, base, steps, pushLog, rtDict,
                   rtState, arg>>

NextText == ParseSection \/ RenderSection

SpecText == InitText /\ [][NextText]_vars

\* C13: {% if energy > 50 %}strong{% else %}weak{% endif %} renders as
\* strong for a player with energy = 80 and as weak for a player without
\* an energy attribute.
C13_StrongOrWeak ==
    (last.op = "render" /\ arg = StrongOrWeak) =>
       /\ (HasStat(pre.state.player.stats, "energy")
             /\ pre.state.player.stats["energy"] = 80)
          => last.result.text = <<"strong">>
       /\ ~HasStat(pre.state.player.stats, "energy") => last.result.text = <<"weak">>

\* the truth of a condition that reads the state: a missing stat counts 0
Truthy(c, s) ==
    CASE c.k = "stat" -> Compare(StatGet(s.player.stats, c.name, 0), c.op, c.n)
      [] c.k = "completed" -> c.name \in s.completed_events
      [] OTHER -> FALSE

ReadsState(c) == c.k \in {"stat", "completed"}

\* the first branch, in declaration order, whose condition is truthy; 0
\* when there is none
FirstTruthy(conds, s) ==
    IF \E i \in DOMAIN conds : Truthy(conds[i], s)
    THEN CHOOSE i \in DOMAIN conds :
            Truthy(conds[i], s) /\ \A j \in 1..(i - 1) : ~Truthy(conds[j], s)
    ELSE 0

\* C14: a conditional block with one if, zero or more elifs and an optional
\* else renders as the body of the first branch in declaration order whose
\* condition is truthy, as the else body when none is, and as empty text
\* when none is and there is no else.
C14_FirstTruthyBranch ==
    (/\ last.op = "render" /\ arg.conds # <<>>
     /\ \A i \in DOMAIN arg.conds : ReadsState(arg.conds[i]))
    => last.result.text =
          IF FirstTruthy(arg.conds, pre.state) # 0
          THEN <<BranchBody(FirstTruthy(arg.conds, pre.state)).text>>
          ELSE IF arg.has_else THEN <<ElseBody.text>> ELSE <<>>

\* how many conditional blocks are open at line i: each {% if %} before it
\* opens one, each {% endif %} closes one
OpenBlocks(lines, i) ==
    Cardinality({j \in 1..(i - 1) : lines[j].k = "if"})
    - Cardinality({j \in 1..(i - 1) : lines[j].k = "endif"})

\* the scene line i belongs to: the latest header before it
SceneOf(lines, i) ==
    lines[CHOOSE h \in 1..(i - 1) :
             /\ lines[h].k = "header"
             /\ \A j \in (h + 1)..(i - 1) : lines[j].k # "header"].id

\* C18: a choice line * T -> A goto:S if C outside any conditional block
\* parses to a Choice of its scene with text T, action A, target scene S
\* and condition C.
C18_ChoiceLineParsed ==
    last.op = "parse" =>
       \A i \in DOMAIN arg.lines :
          (/\ arg.lines[i].k = "choice" /\ arg.lines[i].arrow
           /\ arg.lines[i].action # None /\ arg.lines[i].goto # None
           /\ arg.lines[i].cond.k # "none" /\ arg.lines[i].egoto = None
           /\ OpenBlocks(arg.lines, i) = 0)
          => \E j \in DOMAIN scenes[SceneOf(arg.lines, i)].choices :
                scenes[SceneOf(arg.lines, i)].choices[j]
                   = Choice(arg.lines[i].text, arg.lines[i].action,
                            arg.lines[i].goto, arg.lines[i].cond, None)

\* C19: a choice line goto:X if C else goto:Y keeps X, Y and C: rendered,
\* the choice is listed with target X when C is true and with target Y
\* when C is false.
C19_AlternateTarget ==
    last.op = "render" =>
       \A i \in DOMAIN arg.lines :
          (/\ arg.lines[i].k = "choice" /\ arg.lines[i].egoto # None
           /\ SceneOf(arg.lines, i) = pre.state.current_scene_id
           /\ \A j \in 1..(i - 1) : ~IsTag(arg.lines[j]))
          => \E j \in DOMAIN last.result.choices :
                /\ last.result.choices[j].text = arg.lines[i].text
                /\ last.result.choices[j].next_scene =
                      IF Truthy(arg.lines[i].cond, pre.state)
                      THEN arg.lines[i].goto ELSE arg.lines[i].egoto

\* C20: a line beginning with * stays raw scene content exactly when a
\* conditional block is open at it; every other * line, also one after a
\* closed block in the same or a later scene, is a structural Choice of its
\* scene with its condition.
C20_RawOnlyInsideBlocks ==
    last.op = "parse" =>
       \A i \in DOMAIN arg.lines :
          arg.lines[i].k = "choice" =>
             /\ (\E j \in DOMAIN scenes[SceneOf(arg.lines, i)].content :
                    scenes[SceneOf(arg.lines, i)].content[j] = arg.lines[i])
                <=> OpenBlocks(arg.lines, i) > 0
             /\ OpenBlocks(arg.lines, i) = 0 =>
                   \E j \in DOMAIN scenes[SceneOf(arg.lines, i)].choices :
                      /\ scenes[SceneOf(arg.lines, i)].choices[j].text
                            = arg.lines[i].text
                      /\ scenes[SceneOf(arg.lines, i)].choices[j].condition
                            = arg.lines[i].cond

\* C21: parsing a scene section that holds an @goto:sceneId directive
\* completes without raising: no line of the section, the directive
\* included, makes the parse fail.
C21_GotoDirectiveParses ==
    (last.op = "parse" /\ \E i \in DOMAIN arg.lines : arg.lines[i].k = "goto")
        => last.ok

\* the scene the render was computed from
TextScene == scenes[state.current_scene_id]

\* C22: when the resolved text of the rendered scene holds @goto:X, the
\* engine's rendered scene result reports X as the auto-transition target
\* and its display text is the resolved text without the directive line.
C22_RenderReportsAutoTransition ==
    (/\ last.op = "render"
     /\ AutoTransition(ResolveBlocks(TextScene.content, state)) # None)
        => /\ last.result.auto_transition
                = AutoTransition(ResolveBlocks(TextScene.content, state))
           /\ last.result.text = <<"hello", "">>

\* C24: a branch condition that fails to evaluate counts as false: the
\* block renders as the body of the first later branch whose condition is
\* truthy, else as the else body, else as empty text, and never as an
\* error marker (blocks of an if and at most one elif).
C24_ConditionErrorIsFalseInBlocks ==
    (/\ last.op = "render" /\ arg.conds # <<>> /\ Len(arg.conds) <= 2
     /\ \E i \in DOMAIN arg.conds : ~ReadsState(arg.conds[i]))
    => /\ last.result.text # <<ErrorInCondition.text>>
       /\ last.result.text =
             IF FirstTruthy(arg.conds, pre.state) # 0
             THEN <<BranchBody(FirstTruthy(arg.conds, pre.state)).text>>
             ELSE IF arg.has_else THEN <<ElseBody.text>> ELSE <<>>

====
